---- MODULE Spec2Model ----
(***************************************************************************)
(* Model of the bookstore chatbot backend: the LangGraph routing graph of  *)
(* agent/langgraph.py (Agent), the book lookup of agent/tools.py and the   *)
(* order repository of database/postgres/repository.py.                    *)
(*                                                                         *)
(* Python values are records tagged with their type, so that None, the     *)
(* empty string and the string "None" stay three different values.  A str  *)
(* is a sequence of characters; a dict is a sequence of <<key, value>>     *)
(* pairs in insertion order.                                               *)
(***************************************************************************)
EXTENDS Integers, Sequences, FiniteSets, TLC

(***************************************************************************)
(* Bounds of the model.                                                    *)
(***************************************************************************)
\* number of Agent.run calls in one behaviour
MaxTurns == 2
\* initial stock of every book
MaxStock == 1
\* number of rows the orders table may get
MaxOrders == 2
\* supersteps graph.invoke allows one run before it raises GraphRecursionError
\* (Agent.run passes no recursion_limit in its config; the library's default
\* is larger, the loops of the graph behave the same under any limit)
RecursionLimit == 5
\* number of request handlers of the server
NumRequests == 2
\* the largest stock a cancellation may bring a book to
MaxShelf == 3

\* default of max_results in search_book_func
MaxResults == 10

(***************************************************************************)
(* Python values.                                                          *)
(***************************************************************************)
PyNone == [type |-> "NoneType"]
PyStr(s) == [type |-> "str", val |-> s]
PyInt(n) == [type |-> "int", val |-> n]

\* the str "None"
NoneWord == <<"N", "o", "n", "e">>

\* bool(v)
Truthy(v) ==
    CASE v.type = "NoneType" -> FALSE
      [] v.type = "str" -> v.val # <<>>
      [] v.type = "int" -> v.val # 0

\* str.lower() on one character
LowerChar(c) ==
    CASE c = "A" -> "a"
      [] c = "B" -> "b"
      [] c = "N" -> "n"
      [] c = "Z" -> "z"
      [] OTHER -> c

\* str.lower()
Lower(s) == [i \in 1..Len(s) |-> LowerChar(s[i])]

\* needle in hay, on str
Contains(needle, hay) ==
    \E i \in 0..(Len(hay) - Len(needle)) :
        SubSeq(hay, i + 1, i + Len(needle)) = needle

(***************************************************************************)
(* dict operations.                                                        *)
(***************************************************************************)
\* list(d)
Keys(d) == [i \in 1..Len(d) |-> d[i][1]]

\* k in d
Has(d, k) == \E i \in 1..Len(d) : d[i][1] = k

\* d[k]
Item(d, k) == d[CHOOSE i \in 1..Len(d) : d[i][1] = k][2]

\* d.get(k, default)
Get(d, k, default) == IF Has(d, k) THEN Item(d, k) ELSE default

\* d[k] = v
SetItem(d, k, v) ==
    IF Has(d, k)
    THEN [i \in 1..Len(d) |-> IF d[i][1] = k THEN <<k, v>> ELSE d[i]]
    ELSE Append(d, <<k, v>>)

(***************************************************************************)
(* The books table (models.Book) and the lookup of agent/tools.py.         *)
(***************************************************************************)
\* the rows of the books table without their stock; book_id is the index
Catalog ==
    << [title |-> <<"A", "b">>, author |-> <<"x">>, category |-> <<"c">>],
       [title |-> <<"b">>, author |-> <<"A", "b">>, category |-> <<"c">>] >>

BookIds == DOMAIN Catalog

VARIABLES
    books,      \* the books table: book_id -> row
    orders,     \* the orders table: order_id -> row
    memory,     \* Agent.memory (InMemorySaver): thread_id -> last checkpoint
    pc,         \* per request: the node about to run, or "idle"
    tid,        \* per request: the thread_id (user_id) of its run
    state,      \* per request: the graph state of its run
    steps,      \* per request: supersteps of its run so far
    log,        \* per request: the nodes its run has logged with logger.debug
    route,      \* per request: the last result of check_missing_info
    intent,     \* per request: the result of detect_intent
    action,     \* per request: the last result of order_assistant_intent
    reply,      \* per request: what its last Agent.run call gave its caller
    turns,      \* Agent.run calls so far
    svc         \* per request: its call of the order service create_order

vars == <<books, orders, memory, pc, tid, state, steps, log, route, intent,
          action, reply, turns, svc>>

\* code point of a character
Ord(c) ==
    CASE c = "A" -> 65 [] c = "B" -> 66 [] c = "N" -> 78 [] c = "Z" -> 90
      [] c = "a" -> 97 [] c = "b" -> 98 [] c = "c" -> 99 [] c = "d" -> 100
      [] c = "e" -> 101 [] c = "n" -> 110 [] c = "o" -> 111 [] c = "x" -> 120
      [] c = "z" -> 122 [] OTHER -> 0

\* s < t on str
StrLess(s, t) ==
    \E k \in 1..(Len(t)) :
        /\ \A i \in 1..(k - 1) : i <= Len(s) /\ s[i] = t[i]
        /\ \/ k > Len(s)
           \/ k <= Len(s) /\ Ord(s[k]) < Ord(t[k])

\* the ids of S as a list ordered by less
RECURSIVE OrderedByTitle(_)
OrderedByTitle(S) ==
    IF S = {} THEN <<>>
    ELSE LET m == CHOOSE b \in S :
                    \A c \in S \ {b} : StrLess(books[b].title, books[c].title)
         IN <<m>> \o OrderedByTitle(S \ {m})

RECURSIVE OrderedById(_)
OrderedById(S) ==
    IF S = {} THEN <<>>
    ELSE LET m == CHOOSE b \in S : \A c \in S : b <= c
         IN <<m>> \o OrderedById(S \ {m})

\* BookRepository.search_books(search_term): the rows, as book ids
search_books(search_term) ==
    LET pattern == Lower(search_term.val)
        hit(b) == \/ Contains(pattern, Lower(books[b].title))
                  \/ Contains(pattern, Lower(books[b].author))
    IN OrderedByTitle({b \in BookIds : Truthy(search_term) => hit(b)})

\* BookRepository.get_all_books(limit)
get_all_books(limit) ==
    LET all == OrderedById(BookIds)
    IN IF limit # 0 /\ Len(all) > limit THEN SubSeq(all, 1, limit) ELSE all

\* the dict search_book_func builds for one row
book_data(b) ==
    << <<"book_id", PyInt(b)>>,
       <<"title", PyStr(books[b].title)>>,
       <<"author", PyStr(books[b].author)>>,
       <<"stock", PyInt(books[b].stock)>>,
       <<"category", PyStr(books[b].category)>>,
       <<"availability",
         IF books[b].stock > 0 THEN PyStr(<<"In Stock">>)
                               ELSE PyStr(<<"Out of Stock">>)>> >>

\* the rows search_book_func keeps: one branch of its filter loop per test
Kept(title, min_stock, b) ==
    /\ ~(books[b].stock < min_stock)
    /\ ~(Truthy(title) /\ ~Contains(Lower(title.val), Lower(books[b].title)))

\* search_book_func(title): the list under "books", <<>> when it returns None
search_book_func(title) ==
    LET min_stock == 1
        found == IF Truthy(title) THEN search_books(title)
                                  ELSE get_all_books(MaxResults)
        filtered_books == SelectSeq(found, LAMBDA b : Kept(title, min_stock, b))
        limited == IF Len(filtered_books) > MaxResults
                   THEN SubSeq(filtered_books, 1, MaxResults)
                   ELSE filtered_books
    IN [i \in 1..Len(limited) |-> book_data(limited[i])]

(***************************************************************************)
(* The pure parts of the Agent's nodes (agent/langgraph.py).               *)
(***************************************************************************)
\* x in xs, on a list
InList(x, xs) == \E i \in 1..Len(xs) : xs[i] = x

\* the test of the loops of check_missing_info and follow_up_question
IsMissingValue(v) == v = PyNone \/ v = PyStr(<<>>) \/ v = PyStr(NoneWord)

\* the list missing_info both nodes build: the keys of the dict, in its order,
\* whose value passes the test
missing_info(order_info) ==
    SelectSeq(Keys(order_info), LAMBDA k : IsMissingValue(Item(order_info, k)))

search_fields == <<"book_id", "author", "genre", "category", "book_title_in_db">>

personal_info_fields == <<"customer_name", "phone", "address", "quantity">>

\* check_missing_info with phone left out of personal_info_fields
check_missing_info_WithoutPhone(order_info) ==
    IF \E i \in 1..Len(search_fields) :
           InList(search_fields[i], missing_info(order_info))
    THEN "search_book_info"
    ELSE IF \E f \in {"customer_name", "address", "quantity"} :
                InList(f, missing_info(order_info))
         THEN "follow_up_question"
         ELSE "confirm_order"

\* check_missing_info with follow_up_question as its last return too
check_missing_info_NeverConfirm(order_info) ==
    IF \E i \in 1..Len(search_fields) :
           InList(search_fields[i], missing_info(order_info))
    THEN "search_book_info"
    ELSE "follow_up_question"

\* Agent.check_missing_info
check_missing_info(order_info) ==
    IF \E i \in 1..Len(search_fields) :
           InList(search_fields[i], missing_info(order_info))
    THEN "search_book_info"
    ELSE IF \E i \in 1..Len(personal_info_fields) :
                InList(personal_info_fields[i], missing_info(order_info))
         THEN "follow_up_question"
         ELSE "confirm_order"

\* the dict of Agent.run with no quantity
DefaultOrderInfo_QuantityNone ==
    << <<"book_title", PyNone>>, <<"quantity", PyNone>>,
       <<"customer_name", PyNone>>, <<"phone", PyNone>>, <<"address", PyNone>>,
       <<"book_id", PyNone>>, <<"author", PyNone>>, <<"category", PyNone>> >>

\* the dict Agent.run gives graph.invoke as order_info
DefaultOrderInfo ==
    << <<"book_title", PyNone>>, <<"quantity", PyInt(1)>>,
       <<"customer_name", PyNone>>, <<"phone", PyNone>>, <<"address", PyNone>>,
       <<"book_id", PyNone>>, <<"author", PyNone>>, <<"category", PyNone>> >>

\* OrderInfo(...).dict(): the five fields of the model, in declaration order
OrderInfoDict(book_title, quantity, customer_name, phone, address) ==
    << <<"book_title", book_title>>, <<"quantity", quantity>>,
       <<"customer_name", customer_name>>, <<"phone", phone>>,
       <<"address", address>> >>

\* extract_info with the extractor's fields written into the dict it got
extract_info_Merge(order_info, response) ==
    LET s1 == SetItem(order_info, "book_title", Item(response, "book_title"))
        s2 == SetItem(s1, "quantity", Item(response, "quantity"))
        s3 == SetItem(s2, "customer_name", Item(response, "customer_name"))
        s4 == SetItem(s3, "phone", Item(response, "phone"))
    IN SetItem(s4, "address", Item(response, "address"))

\* the assignment of Agent.extract_info: state["order_info"] = response.dict()
extract_info(order_info, response) == response

\* search_book_info counting the lookups that found no record
search_book_info_CountsRetries(order_info, found) ==
    IF found # <<>>
    THEN LET book == found[1]
             s1 == SetItem(order_info, "book_id", Get(book, "id", PyNone))
             s2 == SetItem(s1, "author", Get(book, "author", PyNone))
             s3 == SetItem(s2, "genre", Get(book, "genre", PyNone))
             s4 == SetItem(s3, "category", Get(book, "category", PyNone))
             s5 == SetItem(s4, "availability", Get(book, "availability", PyNone))
         IN SetItem(s5, "book_title_in_db", Get(book, "title", PyNone))
    ELSE LET s1 == SetItem(order_info, "book_id", PyNone)
             s2 == SetItem(s1, "author", PyNone)
             s3 == SetItem(s2, "genre", PyNone)
             s4 == SetItem(s3, "category", PyNone)
         IN SetItem(s4, "retries", PyInt(Get(order_info, "retries", PyInt(0)).val + 1))

\* search_book_info reading the id of the record under its key book_id
search_book_info_ReadsBookId(order_info, found) ==
    IF found # <<>>
    THEN LET book == found[1]
             s1 == SetItem(order_info, "book_id", Get(book, "book_id", PyNone))
             s2 == SetItem(s1, "author", Get(book, "author", PyNone))
             s3 == SetItem(s2, "genre", Get(book, "genre", PyNone))
             s4 == SetItem(s3, "category", Get(book, "category", PyNone))
             s5 == SetItem(s4, "availability", Get(book, "availability", PyNone))
         IN SetItem(s5, "book_title_in_db", Get(book, "title", PyNone))
    ELSE LET s1 == SetItem(order_info, "book_id", PyNone)
             s2 == SetItem(s1, "author", PyNone)
             s3 == SetItem(s2, "genre", PyNone)
         IN SetItem(s3, "category", PyNone)

\* search_book_info writing the title of the record over book_title
search_book_info_WritesTitle(order_info, found) ==
    IF found # <<>>
    THEN LET book == found[1]
             s1 == SetItem(order_info, "book_id", Get(book, "id", PyNone))
             s2 == SetItem(s1, "author", Get(book, "author", PyNone))
             s3 == SetItem(s2, "genre", Get(book, "genre", PyNone))
             s4 == SetItem(s3, "category", Get(book, "category", PyNone))
             s5 == SetItem(s4, "availability", Get(book, "availability", PyNone))
             s6 == SetItem(s5, "book_title", Get(book, "title", PyNone))
         IN SetItem(s6, "book_title_in_db", Get(book, "title", PyNone))
    ELSE LET s1 == SetItem(order_info, "book_id", PyNone)
             s2 == SetItem(s1, "author", PyNone)
             s3 == SetItem(s2, "genre", PyNone)
         IN SetItem(s3, "category", PyNone)

\* the assignments of Agent.search_book_info, given the result of the search
search_book_info(order_info, found) ==
    IF found # <<>>
    THEN LET book == found[1]
             s1 == SetItem(order_info, "book_id", Get(book, "id", PyNone))
             s2 == SetItem(s1, "author", Get(book, "author", PyNone))
             s3 == SetItem(s2, "genre", Get(book, "genre", PyNone))
             s4 == SetItem(s3, "category", Get(book, "category", PyNone))
             s5 == SetItem(s4, "availability", Get(book, "availability", PyNone))
         IN SetItem(s5, "book_title_in_db", Get(book, "title", PyNone))
    ELSE LET s1 == SetItem(order_info, "book_id", PyNone)
             s2 == SetItem(s1, "author", PyNone)
             s3 == SetItem(s2, "genre", PyNone)
         IN SetItem(s3, "category", PyNone)

\* question_map with no question for the phone
question_map_WithoutPhone == {"book_title", "quantity", "customer_name", "address"}

\* the keys of question_map
question_map == {"book_title", "quantity", "customer_name", "phone", "address"}

\* the content of the message Agent.follow_up_question returns, or the
\* exception its lookup question_map[missing_info[0]] raises
follow_up_question(order_info) ==
    LET book_title == Get(order_info, "book_title", PyStr(<<>>))
        book_title_in_db == Get(order_info, "book_title_in_db", PyStr(<<>>))
        missing == missing_info(order_info)
    IN IF Truthy(book_title) /\ Truthy(book_title_in_db)
          /\ book_title # book_title_in_db
       THEN [kind |-> "disambiguation", title |-> book_title_in_db]
       ELSE IF missing = <<>>
            THEN [kind |-> "exception", error |-> "IndexError",
                  node |-> "follow_up_question"]
            ELSE IF missing[1] \notin question_map
                 THEN [kind |-> "exception", error |-> "KeyError",
                       node |-> "follow_up_question"]
                 ELSE [kind |-> "question", field |-> missing[1]]

\* str(v), as an f-string formats a value
Format(v) ==
    CASE v.type = "NoneType" -> NoneWord
      [] v.type = "str" -> v.val
      [] v.type = "int" -> <<ToString(v.val)>>

\* confirm_order with the phone in the place of the address
confirm_order_PhoneAsAddress(info) ==
    [kind |-> "confirm",
     fields |-> << <<"book_title", Format(Get(info, "book_title", PyStr(<<>>)))>>,
                   <<"quantity", Format(Get(info, "quantity", PyStr(<<>>)))>>,
                   <<"customer_name", Format(Get(info, "customer_name", PyStr(<<>>)))>>,
                   <<"phone", Format(Get(info, "phone", PyStr(<<>>)))>>,
                   <<"address", Format(Get(info, "phone", PyStr(<<>>)))>> >>]

\* the content of the message Agent.confirm_order returns: the fields of the
\* <confirm> payload in the order of the template
confirm_order(info) ==
    [kind |-> "confirm",
     fields |-> << <<"book_title", Format(Get(info, "book_title", PyStr(<<>>)))>>,
                   <<"quantity", Format(Get(info, "quantity", PyStr(<<>>)))>>,
                   <<"customer_name", Format(Get(info, "customer_name", PyStr(<<>>)))>>,
                   <<"phone", Format(Get(info, "phone", PyStr(<<>>)))>>,
                   <<"address", Format(Get(info, "address", PyStr(<<>>)))>> >>]

(***************************************************************************)
(* The state machine: requests that call Agent.run, the nodes of the graph *)
(* built by Agent.build_graph, and the order repository.                   *)
(***************************************************************************)
Procs == 1..NumRequests

\* the handlers at work when the server takes one request at a time
Serial == {1}

\* the user_id values of the requests
UserIds == {"u1", "u2"}

\* the user_input values of the requests
UserInputs == {"hi"}

\* IntentDetection.intent
Intents == {"order_book", "search_book", "unknown"}

\* OrderIntent.action
OrderActions == {"search", "collect", "update"}

\* the values the extractor gives the fields of OrderInfo
ExtractedTitles == {PyNone, PyStr(NoneWord), PyStr(<<"b">>)}
ExtractedQuantities == {PyInt(1)}
ExtractedNames == {PyNone, PyStr(<<"n">>)}
ExtractedPhones == {PyNone, PyStr(NoneWord), PyStr(<<"0">>)}
ExtractedAddresses == {PyNone, PyStr(<<"d">>)}

\* the title argument of the tool calls the model asks for
ToolTitles == {PyStr(<<"a", "b">>), PyStr(<<"z", "z">>)}

\* the nodes added by build_graph
Nodes == {"qa_assistant", "tools", "order_assistant", "extract_info",
          "search_book_info", "follow_up_question", "confirm_order"}

HumanMessage(text) ==
    [role |-> "user", content |-> [kind |-> "text", text |-> text],
     tool_calls |-> <<>>]

AIMessage(content, tool_calls) ==
    [role |-> "assistant", content |-> content, tool_calls |-> tool_calls]

ToolMessage(content) ==
    [role |-> "tool", content |-> content, tool_calls |-> <<>>]

\* a thread with no checkpoint yet
NoCheckpoint == [messages |-> <<>>, order_info |-> <<>>]

\* a handler that has not called the order service
NoCall ==
    [pc |-> "idle", entry |-> "none",
     args |-> [customer_name |-> <<>>, phone |-> <<>>, address |-> <<>>,
               book_id |-> 0, quantity |-> 0],
     stock |-> 0, result |-> [status |-> "none"], created |-> FALSE]

Init ==
    /\ books = [b \in BookIds |-> [title |-> Catalog[b].title,
                                   author |-> Catalog[b].author,
                                   category |-> Catalog[b].category,
                                   stock |-> MaxStock]]
    /\ orders = <<>>
    /\ memory = [u \in UserIds |-> NoCheckpoint]
    /\ pc = [p \in Procs |-> "idle"]
    /\ tid = [p \in Procs |-> "u1"]
    /\ state = [p \in Procs |-> NoCheckpoint]
    /\ steps = [p \in Procs |-> 0]
    /\ log = [p \in Procs |-> <<>>]
    /\ route = [p \in Procs |-> "none"]
    /\ intent = [p \in Procs |-> "none"]
    /\ action = [p \in Procs |-> "none"]
    /\ reply = [p \in Procs |-> [kind |-> "none"]]
    /\ turns = 0
    /\ svc = [p \in Procs |-> NoCall]

\* Agent.run is left, by return or by an exception: its locals are gone
Leave(p) ==
    /\ pc' = [pc EXCEPT ![p] = "idle"]
    /\ state' = [state EXCEPT ![p] = NoCheckpoint]
    /\ steps' = [steps EXCEPT ![p] = 0]
    /\ log' = [log EXCEPT ![p] = <<>>]
    /\ route' = [route EXCEPT ![p] = "none"]
    /\ intent' = [intent EXCEPT ![p] = "none"]
    /\ action' = [action EXCEPT ![p] = "none"]

\* Checkpoint with one thread for every run
Checkpoint_OneThread(p, new) ==
    /\ state' = [state EXCEPT ![p] = new]
    /\ memory' = [memory EXCEPT !["u1"] = new]
    /\ steps' = [steps EXCEPT ![p] = steps[p] + 1]

\* a node's superstep ends: the run's state is checkpointed under its thread
Checkpoint(p, new) ==
    /\ state' = [state EXCEPT ![p] = new]
    /\ memory' = [memory EXCEPT ![tid[p]] = new]
    /\ steps' = [steps EXCEPT ![p] = steps[p] + 1]

\* Agent.run up to graph.invoke taking its input: the messages channel appends
\* the new message to the thread's checkpoint, order_info takes the input
Run(p, user_id, user_input) ==
    /\ pc[p] = "idle"
    /\ turns < MaxTurns
    /\ turns' = turns + 1
    /\ tid' = [tid EXCEPT ![p] = user_id]
    /\ LET new == [messages |-> Append(memory[user_id].messages,
                                       HumanMessage(user_input)),
                   order_info |-> DefaultOrderInfo]
       IN /\ state' = [state EXCEPT ![p] = new]
          /\ memory' = [memory EXCEPT ![user_id] = new]
    /\ steps' = [steps EXCEPT ![p] = 0]
    /\ log' = [log EXCEPT ![p] = <<>>]
    /\ route' = [route EXCEPT ![p] = "none"]
    /\ intent' = [intent EXCEPT ![p] = "none"]
    /\ action' = [action EXCEPT ![p] = "none"]
    /\ pc' = [pc EXCEPT ![p] = "START"]
    /\ UNCHANGED <<svc, books, orders, reply>>

\* the table of the conditional edge from START, with unknown sent to the
\* order flow
detect_intent_edges_UnknownToOrder(label) ==
    CASE label = "order_book" -> "order_assistant"
      [] label = "search_book" -> "qa_assistant"
      [] label = "unknown" -> "order_assistant"

\* the table of the conditional edge from START
detect_intent_edges(label) ==
    CASE label = "order_book" -> "order_assistant"
      [] label = "search_book" -> "qa_assistant"
      [] label = "unknown" -> "qa_assistant"

\* the conditional edge from START: Agent.detect_intent and its table
DetectIntent(p) ==
    /\ pc[p] = "START"
    /\ \E label \in Intents :
          /\ intent' = [intent EXCEPT ![p] = label]
          /\ pc' = [pc EXCEPT ![p] = detect_intent_edges(label)]
    /\ log' = [log EXCEPT ![p] = Append(log[p], "detect_intent")]
    /\ UNCHANGED <<svc, books, orders, memory, tid, state, steps, route, reply, action, turns>>

\* tools_condition: to the tool node when the last message asks for a tool
tools_condition(messages) ==
    IF messages[Len(messages)].tool_calls # <<>> THEN "tools" ELSE "END"

\* node qa_assistant and its conditional edge
QaAssistant(p) ==
    /\ pc[p] = "qa_assistant"
    /\ steps[p] < RecursionLimit
    /\ \E response \in {AIMessage([kind |-> "text", text |-> "answer"], <<>>)}
                       \cup {AIMessage([kind |-> "text", text |-> ""],
                                       <<[title |-> t]>>) : t \in ToolTitles} :
          LET new == [state[p] EXCEPT !.messages = Append(@, response)]
          IN /\ Checkpoint(p, new)
             /\ pc' = [pc EXCEPT ![p] = tools_condition(new.messages)]
    /\ log' = [log EXCEPT ![p] = Append(log[p], "qa_assistant")]
    /\ UNCHANGED <<svc, books, orders, tid, route, reply, intent, action, turns>>

\* the tool search_book, called with a title: the content of its result
search_book(title) ==
    LET found == search_book_func(title)
    IN IF found # <<>>
       THEN [kind |-> "tool_result", status |-> "success", books |-> found]
       ELSE [kind |-> "tool_result", status |-> "no_results", books |-> <<>>]

\* node tools (ToolNode) and its edge back to qa_assistant
Tools(p) ==
    /\ pc[p] = "tools"
    /\ steps[p] < RecursionLimit
    /\ LET call == state[p].messages[Len(state[p].messages)].tool_calls[1]
           new == [state[p] EXCEPT
                     !.messages = Append(@, ToolMessage(search_book(call.title)))]
       IN Checkpoint(p, new)
    /\ pc' = [pc EXCEPT ![p] = "qa_assistant"]
    /\ log' = [log EXCEPT ![p] = Append(log[p], "tools")]
    /\ UNCHANGED <<svc, books, orders, tid, route, reply, intent, action, turns>>

\* the table of the conditional edge from order_assistant, with update sent
\* to the lookup
order_assistant_edges_UpdateToSearch(label) ==
    CASE label = "search" -> "search_book_info"
      [] label = "collect" -> "extract_info"
      [] label = "update" -> "search_book_info"

\* the table of the conditional edge from order_assistant
order_assistant_edges(label) ==
    CASE label = "search" -> "search_book_info"
      [] label = "collect" -> "extract_info"
      [] label = "update" -> "extract_info"

\* node order_assistant and its conditional edge, order_assistant_intent
OrderAssistant(p) ==
    /\ pc[p] = "order_assistant"
    /\ steps[p] < RecursionLimit
    /\ Checkpoint(p, state[p])
    /\ \E label \in OrderActions :
          /\ action' = [action EXCEPT ![p] = label]
          /\ pc' = [pc EXCEPT ![p] = order_assistant_edges(label)]
    /\ log' = [log EXCEPT ![p] = log[p] \o <<"order_assistant", "order_assistant">>]
    /\ UNCHANGED <<svc, books, orders, tid, route, reply, intent, turns>>

\* node extract_info and its conditional edge, check_missing_info
ExtractInfo(p) ==
    /\ pc[p] = "extract_info"
    /\ steps[p] < RecursionLimit
    /\ \E book_title \in ExtractedTitles, quantity \in ExtractedQuantities,
          customer_name \in ExtractedNames, phone \in ExtractedPhones,
          address \in ExtractedAddresses :
          LET new == [state[p] EXCEPT
                        !.order_info =
                            extract_info(@, OrderInfoDict(book_title, quantity,
                                                          customer_name, phone,
                                                          address))]
              next == check_missing_info(new.order_info)
          IN /\ Checkpoint(p, new)
             /\ route' = [route EXCEPT ![p] = next]
             /\ pc' = [pc EXCEPT ![p] =
                          CASE next = "follow_up_question" -> "follow_up_question"
                            [] next = "search_book_info" -> "order_assistant"
                            [] next = "confirm_order" -> "confirm_order"]
    /\ log' = [log EXCEPT ![p] = log[p] \o <<"extract_info", "check_missing_info">>]
    /\ UNCHANGED <<svc, books, orders, tid, reply, intent, action, turns>>

\* node search_book_info and its conditional edge, check_missing_info
SearchBookInfo(p) ==
    /\ pc[p] = "search_book_info"
    /\ steps[p] < RecursionLimit
    /\ LET title == Get(state[p].order_info, "book_title", PyStr(<<>>))
           new == [state[p] EXCEPT
                     !.order_info = search_book_info(@, search_book_func(title))]
           next == check_missing_info(new.order_info)
       IN /\ Checkpoint(p, new)
          /\ route' = [route EXCEPT ![p] = next]
          /\ pc' = [pc EXCEPT ![p] =
                       CASE next = "follow_up_question" -> "follow_up_question"
                         [] next = "search_book_info" -> "search_book_info"
                         [] next = "confirm_order" -> "confirm_order"]
    /\ log' = [log EXCEPT ![p] = log[p] \o <<"search_book_info", "check_missing_info">>]
    /\ UNCHANGED <<svc, books, orders, tid, reply, intent, action, turns>>

\* node follow_up_question and its edge to END; an exception of the node
\* leaves graph.invoke and Agent.run
FollowUpQuestion(p) ==
    /\ pc[p] = "follow_up_question"
    /\ steps[p] < RecursionLimit
    /\ LET content == follow_up_question(state[p].order_info)
       IN IF content.kind = "exception"
          THEN /\ reply' = [reply EXCEPT ![p] = content]
               /\ Leave(p)
               /\ UNCHANGED memory
          ELSE /\ Checkpoint(p, [state[p] EXCEPT
                                   !.messages = Append(@, AIMessage(content, <<>>))])
               /\ pc' = [pc EXCEPT ![p] = "END"]
               /\ log' = [log EXCEPT ![p] = Append(log[p], "follow_up_question")]
               /\ UNCHANGED <<reply, route, intent, action>>
    /\ UNCHANGED <<svc, books, orders, tid, turns>>

\* confirm_order adding a row to the orders table
ConfirmOrder_CreatesOrder(p) ==
    /\ pc[p] = "confirm_order"
    /\ steps[p] < RecursionLimit
    /\ Checkpoint(p, [state[p] EXCEPT
                        !.messages = Append(@, AIMessage(confirm_order(state[p].order_info),
                                                         <<>>))])
    /\ pc' = [pc EXCEPT ![p] = "END"]
    /\ log' = [log EXCEPT ![p] = Append(log[p], "confirm_order")]
    /\ orders' = Append(orders, [book_id |-> 1, quantity |-> 1, status |-> "pending"])
    /\ UNCHANGED <<svc, books, tid, route, reply, intent, action, turns>>

\* node confirm_order and its edge to END
ConfirmOrder(p) ==
    /\ pc[p] = "confirm_order"
    /\ steps[p] < RecursionLimit
    /\ Checkpoint(p, [state[p] EXCEPT
                        !.messages = Append(@, AIMessage(confirm_order(state[p].order_info),
                                                         <<>>))])
    /\ pc' = [pc EXCEPT ![p] = "END"]
    /\ log' = [log EXCEPT ![p] = Append(log[p], "confirm_order")]
    /\ UNCHANGED <<svc, books, orders, tid, route, reply, intent, action, turns>>

\* graph.invoke has used its supersteps and raises GraphRecursionError, which
\* Agent.run does not catch
RecursionError(p) ==
    /\ pc[p] \in Nodes
    /\ steps[p] >= RecursionLimit
    /\ reply' = [reply EXCEPT ![p] = [kind |-> "exception",
                                      error |-> "GraphRecursionError",
                                      node |-> pc[p]]]
    /\ Leave(p)
    /\ UNCHANGED <<svc, books, orders, memory, tid, turns>>

\* the nodes and edge functions that call the completion service or the
\* repository without a try block: detect_intent, qa_assistant,
\* order_assistant_intent, extract_info, search_book_info
Callers == {"START", "qa_assistant", "order_assistant", "extract_info",
            "search_book_info"}

\* the call of the node about to run raises: the exception leaves
\* graph.invoke and Agent.run, the thread keeps its last checkpoint
ServiceError(p) ==
    /\ pc[p] \in Callers
    /\ steps[p] < RecursionLimit
    /\ reply' = [reply EXCEPT ![p] = [kind |-> "exception",
                                      error |-> "ServiceError",
                                      node |-> pc[p]]]
    /\ Leave(p)
    /\ UNCHANGED <<svc, books, orders, memory, tid, turns>>

\* Agent.run after graph.invoke: the content of the last message
Return(p) ==
    /\ pc[p] = "END"
    /\ LET messages == state[p].messages
       IN reply' = [reply EXCEPT ![p] =
                       IF messages # <<>>
                       THEN messages[Len(messages)].content
                       ELSE [kind |-> "text", text |-> "sorry"]]
    /\ Leave(p)
    /\ UNCHANGED <<svc, books, orders, memory, tid, turns>>

\* OrderRepository.create_order, one database session
CreateOrder(book_id, quantity) ==
    /\ Len(orders) < MaxOrders
    /\ book_id \in BookIds
    /\ ~(books[book_id].stock < quantity)
    /\ orders' = Append(orders, [book_id |-> book_id, quantity |-> quantity,
                                 status |-> "pending"])
    /\ books' = [books EXCEPT ![book_id].stock = @ - quantity]
    /\ UNCHANGED <<svc, memory, pc, tid, state, steps, log, route, reply, intent,
                   action, turns>>

Next ==
    \/ \E p \in Serial, u \in UserIds, t \in UserInputs : Run(p, u, t)
    \/ \E p \in Serial : DetectIntent(p)
    \/ \E p \in Serial : QaAssistant(p)
    \/ \E p \in Serial : Tools(p)
    \/ \E p \in Serial : OrderAssistant(p)
    \/ \E p \in Serial : ExtractInfo(p)
    \/ \E p \in Serial : SearchBookInfo(p)
    \/ \E p \in Serial : FollowUpQuestion(p)
    \/ \E p \in Serial : ConfirmOrder(p)
    \/ \E p \in Serial : RecursionError(p)
    \/ \E p \in Serial : ServiceError(p)
    \/ \E p \in Serial : Return(p)
    \/ \E b \in BookIds, q \in 1..MaxStock : CreateOrder(b, q)

Spec == Init /\ [][Next]_vars

(***************************************************************************)
(* The same server with its request handlers at work at the same time:     *)
(* chat_with_agent and Agent.run take no lock, so the steps of two runs    *)
(* interleave.  The inventory is held fixed.                               *)
(***************************************************************************)
\* a request goes to the first handler that is free
FirstFree(p) == pc[p] = "idle" /\ \A q \in Procs : q < p => pc[q] # "idle"

NextConcurrent ==
    \/ \E p \in Procs, u \in UserIds, t \in UserInputs :
          FirstFree(p) /\ Run(p, u, t)
    \/ \E p \in Procs : DetectIntent(p)
    \/ \E p \in Procs : QaAssistant(p)
    \/ \E p \in Procs : Tools(p)
    \/ \E p \in Procs : OrderAssistant(p)
    \/ \E p \in Procs : ExtractInfo(p)
    \/ \E p \in Procs : SearchBookInfo(p)
    \/ \E p \in Procs : FollowUpQuestion(p)
    \/ \E p \in Procs : ConfirmOrder(p)
    \/ \E p \in Procs : RecursionError(p)
    \/ \E p \in Procs : ServiceError(p)
    \/ \E p \in Procs : Return(p)

SpecConcurrent == Init /\ [][NextConcurrent]_vars

(***************************************************************************)
(* check_missing_info, follow_up_question and confirm_order as functions:  *)
(* every snapshot the nodes can build is an input.  The five keys of       *)
(* OrderInfo are always there and come first (Agent.run and                *)
(* OrderInfo.dict() write them in this order); a search key is there once  *)
(* a node wrote it, after the keys of OrderInfo.dict() in the order of the *)
(* assignments of search_book_info, or in the order of the dict of         *)
(* Agent.run followed by the keys search_book_info adds to it.             *)
(***************************************************************************)
\* the pair of a key, or nothing when the key is not in the dict
Absent == [type |-> "absent"]

Entry(k, v) == IF v = Absent THEN <<>> ELSE << <<k, v>> >>

SnapshotIds == {Absent, PyNone, PyInt(1)}
SnapshotAuthors == {Absent, PyNone, PyStr(<<>>), PyStr(NoneWord), PyStr(<<"x">>)}
SnapshotGenres == {Absent, PyNone, PyStr(<<"g">>)}
SnapshotCategories == {Absent, PyNone, PyStr(<<"c">>)}
SnapshotAvailabilities == {Absent, PyStr(<<"In Stock">>)}
SnapshotTitles == {Absent, PyNone, PyStr(<<"A", "b">>)}
SnapshotNames == {PyNone, PyStr(<<>>), PyStr(NoneWord), PyStr(<<"n">>)}

\* the search keys in the order search_book_info writes them into the dict
\* of OrderInfo.dict()
KeysAfterExtract(book_id, author, genre, category, availability, book_title_in_db) ==
    Entry("book_id", book_id) \o Entry("author", author)
        \o Entry("genre", genre) \o Entry("category", category)
        \o Entry("availability", availability)
        \o Entry("book_title_in_db", book_title_in_db)

\* the search keys in the order of the dict of Agent.run, then the keys
\* search_book_info adds to it
KeysAfterRun(book_id, author, genre, category, availability, book_title_in_db) ==
    Entry("book_id", book_id) \o Entry("author", author)
        \o Entry("category", category) \o Entry("genre", genre)
        \o Entry("availability", availability)
        \o Entry("book_title_in_db", book_title_in_db)

Snapshots ==
    { OrderInfoDict(book_title, PyInt(1), customer_name, phone, address) \o tail :
      book_title \in ExtractedTitles, customer_name \in SnapshotNames,
      phone \in ExtractedPhones, address \in ExtractedAddresses,
      tail \in UNION { { KeysAfterExtract(book_id, author, genre, category,
                                          availability, book_title_in_db),
                         KeysAfterRun(book_id, author, genre, category,
                                      availability, book_title_in_db) } :
                       book_id \in SnapshotIds, author \in SnapshotAuthors,
                       genre \in SnapshotGenres, category \in SnapshotCategories,
                       availability \in SnapshotAvailabilities,
                       book_title_in_db \in SnapshotTitles } }

InitPolicy ==
    /\ books = [b \in BookIds |-> [title |-> Catalog[b].title,
                                   author |-> Catalog[b].author,
                                   category |-> Catalog[b].category,
                                   stock |-> MaxStock]]
    /\ orders = <<>>
    /\ memory = [u \in UserIds |-> NoCheckpoint]
    /\ pc = [p \in Procs |-> IF p \in Serial THEN "check_missing_info" ELSE "idle"]
    /\ tid = [p \in Procs |-> "u1"]
    /\ \E snapshot \in Snapshots :
          state = [p \in Procs |-> IF p \in Serial
                                   THEN [messages |-> <<>>, order_info |-> snapshot]
                                   ELSE NoCheckpoint]
    /\ steps = [p \in Procs |-> 0]
    /\ log = [p \in Procs |-> <<>>]
    /\ route = [p \in Procs |-> "none"]
    /\ intent = [p \in Procs |-> "none"]
    /\ action = [p \in Procs |-> "none"]
    /\ reply = [p \in Procs |-> [kind |-> "none"]]
    /\ turns = 0
    /\ svc = [p \in Procs |-> NoCall]

\* one call of Agent.check_missing_info
Policy(p) ==
    /\ pc[p] = "check_missing_info"
    /\ route' = [route EXCEPT ![p] = check_missing_info(state[p].order_info)]
    /\ log' = [log EXCEPT ![p] = Append(log[p], "check_missing_info")]
    /\ pc' = [pc EXCEPT ![p] = "decided"]
    /\ UNCHANGED <<svc, books, orders, memory, tid, state, steps, reply, intent, action, turns>>

\* one call of Agent.follow_up_question: the node's message, or the
\* exception of its lookup in question_map
AskFollowUp(p) ==
    /\ pc[p] = "check_missing_info"
    /\ LET content == follow_up_question(state[p].order_info)
       IN IF content.kind = "exception"
          THEN /\ reply' = [reply EXCEPT ![p] = content]
               /\ pc' = [pc EXCEPT ![p] = "raised"]
               /\ UNCHANGED state
          ELSE /\ state' = [state EXCEPT
                              ![p].messages = Append(@, AIMessage(content, <<>>))]
               /\ pc' = [pc EXCEPT ![p] = "asked"]
               /\ UNCHANGED reply
    /\ log' = [log EXCEPT ![p] = Append(log[p], "follow_up_question")]
    /\ UNCHANGED <<svc, books, orders, memory, tid, steps, route, intent, action, turns>>

\* one call of Agent.confirm_order: the node's message
RenderConfirm(p) ==
    /\ pc[p] = "check_missing_info"
    /\ state' = [state EXCEPT
                   ![p].messages = Append(@, AIMessage(confirm_order(state[p].order_info),
                                                       <<>>))]
    /\ pc' = [pc EXCEPT ![p] = "rendered"]
    /\ log' = [log EXCEPT ![p] = Append(log[p], "confirm_order")]
    /\ UNCHANGED <<svc, books, orders, memory, tid, steps, route, intent, action,
                   reply, turns>>

NextPolicy ==
    \/ \E p \in Serial : Policy(p)
    \/ \E p \in Serial : AskFollowUp(p)
    \/ \E p \in Serial : RenderConfirm(p)

SpecPolicy == InitPolicy /\ [][NextPolicy]_vars

(***************************************************************************)
(* extract_info and search_book_info as functions: the nodes applied to    *)
(* the snapshots the nodes can build, under every stock of the books.      *)
(***************************************************************************)
\* the snapshots with a customer name, a phone and an address
NodeSnapshots ==
    { s \in Snapshots : /\ Item(s, "customer_name") = PyStr(<<"n">>)
                        /\ Item(s, "phone") = PyStr(<<"0">>)
                        /\ Item(s, "address") = PyStr(<<"d">>) }

InitNodes ==
    /\ \E stock \in [BookIds -> 0..MaxStock] :
          books = [b \in BookIds |-> [title |-> Catalog[b].title,
                                      author |-> Catalog[b].author,
                                      category |-> Catalog[b].category,
                                      stock |-> stock[b]]]
    /\ orders = <<>>
    /\ memory = [u \in UserIds |-> NoCheckpoint]
    /\ pc = [p \in Procs |-> IF p \in Serial THEN "node" ELSE "idle"]
    /\ tid = [p \in Procs |-> "u1"]
    /\ \E snapshot \in NodeSnapshots :
          state = [p \in Procs |-> IF p \in Serial
                                   THEN [messages |-> <<>>, order_info |-> snapshot]
                                   ELSE NoCheckpoint]
    /\ steps = [p \in Procs |-> 0]
    /\ log = [p \in Procs |-> <<>>]
    /\ route = [p \in Procs |-> "none"]
    /\ intent = [p \in Procs |-> "none"]
    /\ action = [p \in Procs |-> "none"]
    /\ reply = [p \in Procs |-> [kind |-> "none"]]
    /\ turns = 0
    /\ svc = [p \in Procs |-> NoCall]

\* one call of Agent.extract_info
Extract(p) ==
    /\ pc[p] \in {"node", "looked", "looked_twice"}
    /\ \E book_title \in ExtractedTitles, quantity \in ExtractedQuantities,
          customer_name \in ExtractedNames, phone \in ExtractedPhones,
          address \in ExtractedAddresses :
          state' = [state EXCEPT
                      ![p].order_info =
                          extract_info(@, OrderInfoDict(book_title, quantity,
                                                        customer_name, phone,
                                                        address))]
    /\ pc' = [pc EXCEPT ![p] = "extracted"]
    /\ log' = [log EXCEPT ![p] = Append(log[p], "extract_info")]
    /\ UNCHANGED <<svc, books, orders, memory, tid, steps, route, intent, action,
                   reply, turns>>

\* one call of Agent.search_book_info, and one more after it
Lookup(p) ==
    /\ pc[p] \in {"node", "looked"}
    /\ LET title == Get(state[p].order_info, "book_title", PyStr(<<>>))
       IN state' = [state EXCEPT
                      ![p].order_info = search_book_info(@, search_book_func(title))]
    /\ pc' = [pc EXCEPT ![p] = IF pc[p] = "node" THEN "looked" ELSE "looked_twice"]
    /\ log' = [log EXCEPT ![p] = Append(log[p], "search_book_info")]
    /\ UNCHANGED <<svc, books, orders, memory, tid, steps, route, intent, action,
                   reply, turns>>

NextNodes ==
    \/ \E p \in Serial : Extract(p)
    \/ \E p \in Serial : Lookup(p)

SpecNodes == InitNodes /\ [][NextNodes]_vars

(***************************************************************************)
(* The order service: create_order of services/order.py and, under it,    *)
(* OrderRepository.create_order.  Each of the two opens a database session *)
(* of its own (PostgresDB.get_session), so a call is a sequence of steps   *)
(* between which the calls of other handlers take theirs.                  *)
(***************************************************************************)
\* str.strip() of a string of the characters " " and others
RECURSIVE LStrip(_)
LStrip(s) ==
    IF s # <<>> /\ Head(s) = " " THEN LStrip(Tail(s)) ELSE s

RECURSIVE RStrip(_)
RStrip(s) ==
    IF s # <<>> /\ s[Len(s)] = " " THEN RStrip(SubSeq(s, 1, Len(s) - 1)) ELSE s

Strip(s) == LStrip(RStrip(s))

\* the arguments of the calls
ArgNames == {<<>>, <<" ">>, <<"n">>}
ArgPhones == {<<" ">>, <<"0">>}
ArgAddresses == {<<>>, <<"d">>}
ArgBookIds == BookIds \cup {Len(Catalog) + 1}
ArgQuantities == 0..(MaxStock + 1)

ServiceArgs ==
    [customer_name : ArgNames, phone : ArgPhones, address : ArgAddresses,
     book_id : ArgBookIds, quantity : ArgQuantities]

\* OrderRepository.create_order is given strings its caller has stripped
RepositoryArgs ==
    { a \in ServiceArgs : /\ a.customer_name = <<"n">>
                          /\ a.phone = <<"0">>
                          /\ a.address = <<"d">> }

ErrorResult(message) == [status |-> "error", message |-> message]

\* the checks of the arguments, in the order of the code, without the check
\* of the quantity
validate_WithoutQuantity(a) ==
    IF a.customer_name = <<>> \/ Strip(a.customer_name) = <<>> THEN "customer_name"
    ELSE IF a.phone = <<>> \/ Strip(a.phone) = <<>> THEN "phone"
    ELSE IF a.address = <<>> \/ Strip(a.address) = <<>> THEN "address"
    ELSE "ok"

\* the checks of the arguments, in the order of the code: the field whose
\* check fails first, or "ok"
validate(a) ==
    IF a.customer_name = <<>> \/ Strip(a.customer_name) = <<>> THEN "customer_name"
    ELSE IF a.phone = <<>> \/ Strip(a.phone) = <<>> THEN "phone"
    ELSE IF a.address = <<>> \/ Strip(a.address) = <<>> THEN "address"
    ELSE IF a.quantity <= 0 THEN "quantity"
    ELSE "ok"

\* the call ends with this result
Finish(p, result) ==
    svc' = [svc EXCEPT ![p].pc = "done", ![p].result = result]

\* create_order is called: the checks of its arguments
Call(p, a) ==
    /\ svc[p].pc = "idle"
    /\ svc' = [svc EXCEPT
                 ![p] = IF validate(a) = "ok"
                        THEN [@ EXCEPT !.pc = "get_book", !.entry = "service",
                                       !.args = a]
                        ELSE [@ EXCEPT !.pc = "done", !.entry = "service",
                                       !.args = a,
                                       !.result = ErrorResult(validate(a))]]
    /\ UNCHANGED <<books, orders, memory, pc, tid, state, steps, log, route,
                   intent, action, reply, turns>>

\* repo.books.get_book_by_id in a session of its own, then the check of
\* book.stock.  The session has committed and closed when the row is
\* returned: the row is detached with its attributes expired
\* (sessionmaker's expire_on_commit is left at its default), and the read of
\* book.stock either raises, which the except clause turns into the result
\* "Lỗi hệ thống", or gives the stock the session loaded.
GetBook(p) ==
    /\ svc[p].pc = "get_book"
    /\ LET a == svc[p].args
       IN IF a.book_id \notin BookIds
          THEN Finish(p, ErrorResult("not_found"))
          ELSE \/ Finish(p, ErrorResult("system"))
               \/ IF books[a.book_id].stock < a.quantity
                  THEN Finish(p, ErrorResult("stock"))
                  ELSE svc' = [svc EXCEPT ![p].pc = "repo_read",
                                          ![p].stock = books[a.book_id].stock]
    /\ UNCHANGED <<books, orders, memory, pc, tid, state, steps, log, route,
                   intent, action, reply, turns>>

\* OrderRepository.create_order is called by another caller than the service
RepoCall(p, a) ==
    /\ svc[p].pc = "idle"
    /\ svc' = [svc EXCEPT ![p].pc = "repo_read", ![p].entry = "repository",
                          ![p].args = a]
    /\ UNCHANGED <<books, orders, memory, pc, tid, state, steps, log, route,
                   intent, action, reply, turns>>

\* what a caller gets when OrderRepository.create_order returns None
NoneReturned(p) ==
    IF svc[p].entry = "service"
    THEN ErrorResult("create_failed")
    ELSE [status |-> "none_returned"]

\* OrderRepository.create_order: the query of the book and the checks on it
RepoRead(p) ==
    /\ svc[p].pc = "repo_read"
    /\ LET a == svc[p].args
       IN IF a.book_id \notin BookIds
          THEN Finish(p, NoneReturned(p))
          ELSE IF books[a.book_id].stock < a.quantity
          THEN Finish(p, NoneReturned(p))
          ELSE svc' = [svc EXCEPT ![p].pc = "repo_write",
                                  ![p].stock = books[a.book_id].stock]
    /\ UNCHANGED <<books, orders, memory, pc, tid, state, steps, log, route,
                   intent, action, reply, turns>>

\* OrderRepository.create_order: the order is added, book.stock is set to
\* the stock that was read less the quantity, and the session commits; then
\* the service builds its result from the order, a detached row as the book
\* was: the read of order.order_id either raises or gives the new id
RepoWrite(p) ==
    /\ svc[p].pc = "repo_write"
    /\ Len(orders) < MaxOrders
    /\ LET a == svc[p].args
       IN /\ orders' = Append(orders, [book_id |-> a.book_id,
                                       quantity |-> a.quantity,
                                       status |-> "pending"])
          /\ books' = [books EXCEPT ![a.book_id].stock = svc[p].stock - a.quantity]
          /\ \E result \in
                 IF svc[p].entry = "service"
                 THEN {ErrorResult("system"),
                       [status |-> "success", order_id |-> Len(orders) + 1,
                        order_date |-> "utcnow"]}
                 ELSE {[status |-> "order_returned"]} :
                svc' = [svc EXCEPT ![p].pc = "done", ![p].created = TRUE,
                                   ![p].result = result]
    /\ UNCHANGED <<memory, pc, tid, state, steps, log, route, intent, action,
                   reply, turns>>

NextOrders ==
    \/ \E p \in Procs, a \in ServiceArgs : Call(p, a)
    \/ \E p \in Procs, a \in RepositoryArgs : RepoCall(p, a)
    \/ \E p \in Procs : GetBook(p)
    \/ \E p \in Procs : RepoRead(p)
    \/ \E p \in Procs : RepoWrite(p)

SpecOrders == Init /\ [][NextOrders]_vars

(***************************************************************************)
(* The orders table under OrderRepository: orders are created and their    *)
(* status is updated, one call at a time, each in one database session.    *)
(***************************************************************************)
\* models.OrderStatus
OrderStatuses == {"pending", "confirmed", "shipped", "delivered", "cancelled"}

\* OrderRepository.update_order_status: the status is set, and the stock of
\* the book gets the quantity back when the order becomes cancelled from
\* another status; an id of no order changes nothing
UpdateOrderStatus(order_id, new_status) ==
    /\ IF order_id \in 1..Len(orders)
       THEN LET order == orders[order_id]
                old_status == order.status
            IN /\ orders' = [orders EXCEPT ![order_id].status = new_status]
               /\ IF new_status = "cancelled" /\ old_status # "cancelled"
                  THEN /\ books[order.book_id].stock + order.quantity <= MaxShelf
                       /\ books' = [books EXCEPT
                                      ![order.book_id].stock = @ + order.quantity]
                  ELSE UNCHANGED books
       ELSE UNCHANGED <<books, orders>>
    /\ UNCHANGED <<svc, memory, pc, tid, state, steps, log, route, reply, intent,
                   action, turns>>

NextRepository ==
    \/ \E b \in BookIds, q \in 1..MaxStock : CreateOrder(b, q)
    \/ \E order_id \in 1..MaxOrders, new_status \in OrderStatuses :
          UpdateOrderStatus(order_id, new_status)

SpecRepository == Init /\ [][NextRepository]_vars

(***************************************************************************)
(* The claims.                                                             *)
(***************************************************************************)
\* a field is missing: its key is absent from the snapshot, or its value is
\* None, the empty string or the string "None"
SlotMissing(order_info, field) ==
    ~Has(order_info, field) \/ IsMissingValue(Item(order_info, field))

SomeSearchFieldMissing(order_info) ==
    \E i \in 1..Len(search_fields) : SlotMissing(order_info, search_fields[i])

SomePersonalFieldMissing(order_info) ==
    \E i \in 1..Len(personal_info_fields) :
        SlotMissing(order_info, personal_info_fields[i])

\* the run of p has taken a decision of the Missing-Info Policy on its
\* current snapshot
Decided(p) == route[p] # "none"

\* C1: whenever the Missing-Info Policy has decided on a snapshot with a
\* missing search field (absent, None, "" or "None"), the decision is
\* search_book_info, whatever the personal fields hold.
C1_MissingSearchFieldGivesSearch ==
    \A p \in Procs :
        (Decided(p) /\ SomeSearchFieldMissing(state[p].order_info))
            => route[p] = "search_book_info"

\* C2: the Follow-up Question Generator is about to run only when no search
\* field is missing.
C2_FollowUpOnlyAfterResolution ==
    \A p \in Procs :
        pc[p] = "follow_up_question" => ~SomeSearchFieldMissing(state[p].order_info)

\* a lookup of this run has found a record
Resolved(order_info) == Has(order_info, "book_title_in_db")

\* C3: a run whose lookups have found no record leaves the loop Book Lookup ->
\* Missing-Info Policy -> Book Lookup before its supersteps are used up: it is
\* never at the point where only GraphRecursionError is left to it.
C3_UnresolvedLookupLoopEnds ==
    \A p \in Procs :
        (pc[p] = "search_book_info" /\ InList("search_book_info", log[p])
         /\ ~Resolved(state[p].order_info))
            => steps[p] < RecursionLimit

\* C4: no run of the QA flow ends by the exception of the superstep limit: the
\* flow reaches END (done) however often the model asks for a tool.
C4_QaFlowReachesDone ==
    \A p \in Procs :
        ~(/\ reply[p].kind = "exception"
          /\ reply[p].error = "GraphRecursionError"
          /\ reply[p].node \in {"qa_assistant", "tools"})

\* the last turn of the thread has completed: its checkpoint ends with an
\* assistant reply that asks for no tool
TurnCompleted(user_id) ==
    LET messages == memory[user_id].messages
    IN /\ messages # <<>>
       /\ messages[Len(messages)].role = "assistant"
       /\ messages[Len(messages)].tool_calls = <<>>

\* every slot that holds a value in the snapshot before holds it after
SlotsKept(before, after) ==
    \A i \in 1..Len(before) :
        ~IsMissingValue(before[i][2])
            => Has(after, before[i][1]) /\ Item(after, before[i][1]) = before[i][2]

\* C5: a turn on a conversation id starts from the OrderSlots snapshot the
\* previous completed turn of that id ended with: no slot that turn had
\* collected is reset.
C5_SlotsKeptAcrossTurns ==
    [][\A p \in Procs :
          (pc[p] = "idle" /\ pc'[p] = "START" /\ TurnCompleted(tid'[p]))
              => SlotsKept(memory[tid'[p]].order_info, state'[p].order_info)]_vars

\* C6: whenever the Confirmation Renderer is about to run, book_title,
\* quantity, customer_name, phone, address and every search field are
\* non-missing.
C6_ConfirmOnlyWhenResolved ==
    \A p \in Procs :
        pc[p] = "confirm_order"
            => /\ ~SomeSearchFieldMissing(state[p].order_info)
               /\ ~SomePersonalFieldMissing(state[p].order_info)
               /\ ~SlotMissing(state[p].order_info, "book_title")

\* the entries of a run's log that are nodes of the order flow after its
\* entry node, or the policy
FlowNodes(entries) ==
    SelectSeq(entries, LAMBDA n : n \in {"extract_info", "check_missing_info",
                                         "search_book_info", "follow_up_question",
                                         "confirm_order"})

\* the first turn of a thread, with intent order_book and action collect, has
\* ended after the extractor gave a title the inventory has, quantity 1 and
\* no customer details
CollectScenario(p) ==
    /\ pc[p] = "END"
    /\ Len(state[p].messages) = 2
    /\ Len(log[p]) >= 4
    /\ SubSeq(log[p], 1, 4)
         = <<"detect_intent", "order_assistant", "order_assistant", "extract_info">>
    /\ Item(state[p].order_info, "book_title") = PyStr(<<"b">>)
    /\ search_book_func(PyStr(<<"b">>)) # <<>>
    /\ Item(state[p].order_info, "quantity") = PyInt(1)
    /\ Item(state[p].order_info, "customer_name") = PyNone
    /\ Item(state[p].order_info, "phone") = PyNone
    /\ Item(state[p].order_info, "address") = PyNone

\* C7: in that scenario the nodes ran in the order Slot Extractor, Policy,
\* Book Lookup, Policy, Follow-up Generator, and the question asked is the
\* one for customer_name.
C7_CollectScenarioNodeOrder ==
    \A p \in Procs :
        CollectScenario(p)
            => /\ FlowNodes(log[p])
                    = <<"extract_info", "check_missing_info", "search_book_info",
                        "check_missing_info", "follow_up_question">>
               /\ state[p].messages[2].content
                    = [kind |-> "question", field |-> "customer_name"]

\* the step is the node search_book_info of p's run
LookupStep(p) == pc[p] = "search_book_info" /\ steps'[p] = steps[p] + 1

\* what the lookup of p's run finds
LookupResult(p) ==
    search_book_func(Get(state[p].order_info, "book_title", PyStr(<<>>)))

\* C8: a Book Lookup with a non-empty result leaves book_id, author, category,
\* availability and book_title_in_db equal to the id, author, category,
\* availability and title of the first record.
C8_LookupCopiesFirstRecord ==
    [][\A p \in Procs :
          (LookupStep(p) /\ LookupResult(p) # <<>>)
              => LET book == LookupResult(p)[1]
                     after == state'[p].order_info
                 IN /\ Item(after, "book_id") = Item(book, "book_id")
                    /\ Item(after, "author") = Item(book, "author")
                    /\ Item(after, "category") = Item(book, "category")
                    /\ Item(after, "availability") = Item(book, "availability")
                    /\ Item(after, "book_title_in_db") = Item(book, "title")]_vars

\* C9: after a Book Lookup that finds no record, each of book_id, author,
\* genre, category and book_title_in_db is missing, whatever it held before.
C9_NotFoundClearsSearchFields ==
    [][\A p \in Procs :
          (LookupStep(p) /\ LookupResult(p) = <<>>)
              => \A i \in 1..Len(search_fields) :
                    SlotMissing(state'[p].order_info, search_fields[i])]_vars

\* C10: for every snapshot in which no search field is missing and one of
\* customer_name, phone, address, quantity is missing, the Missing-Info
\* Policy returns follow_up_question.
C10_MissingPersonalFieldGivesFollowUp ==
    \A p \in Procs :
        (Decided(p) /\ ~SomeSearchFieldMissing(state[p].order_info)
         /\ SomePersonalFieldMissing(state[p].order_info))
            => route[p] = "follow_up_question"

\* C10 witness: the policy has decided on a snapshot with every search field
\* set and a personal field missing.
C10_Witness ==
    \E p \in Procs :
        /\ pc[p] = "decided"
        /\ ~SomeSearchFieldMissing(state[p].order_info)
        /\ SlotMissing(state[p].order_info, "phone")
        /\ ~SlotMissing(state[p].order_info, "customer_name")

\* the fields of OrderSlots
OrderSlotsFields ==
    <<"book_title", "quantity", "customer_name", "phone", "address", "book_id",
      "author", "genre", "category", "availability", "book_title_in_db">>

NoFieldMissing(order_info) ==
    \A i \in 1..Len(OrderSlotsFields) : ~SlotMissing(order_info, OrderSlotsFields[i])

\* C11: for every snapshot in which no field of OrderSlots is missing, the
\* Missing-Info Policy returns confirm_order.
C11_NothingMissingGivesConfirm ==
    \A p \in Procs :
        (Decided(p) /\ NoFieldMissing(state[p].order_info))
            => route[p] = "confirm_order"

\* C11 witness: the policy has decided on a snapshot with every field set.
C11_Witness ==
    \E p \in Procs :
        /\ pc[p] = "decided"
        /\ NoFieldMissing(state[p].order_info)
        /\ Item(state[p].order_info, "phone") = PyStr(<<"0">>)

\* the order in which the Follow-up Question Generator looks for a missing
\* field
CanonicalOrder == <<"book_title", "quantity", "customer_name", "phone", "address">>

\* the first field of the canonical order that is missing
FirstMissing(order_info) ==
    LET i == CHOOSE i \in 1..Len(CanonicalOrder) :
                 /\ SlotMissing(order_info, CanonicalOrder[i])
                 /\ \A j \in 1..(i - 1) : ~SlotMissing(order_info, CanonicalOrder[j])
    IN CanonicalOrder[i]

SomeCanonicalFieldMissing(order_info) ==
    \E i \in 1..Len(CanonicalOrder) : SlotMissing(order_info, CanonicalOrder[i])

\* book_title and book_title_in_db are both non-missing and differ
DisambiguationCase(order_info) ==
    /\ ~SlotMissing(order_info, "book_title")
    /\ ~SlotMissing(order_info, "book_title_in_db")
    /\ Item(order_info, "book_title") # Item(order_info, "book_title_in_db")

\* the Follow-up Question Generator has run on the snapshot of p
Asked(p) == pc[p] \in {"asked", "raised"}

\* what it emitted: the content of its message, or its exception
Emitted(p) ==
    IF pc[p] = "asked"
    THEN state[p].messages[Len(state[p].messages)].content
    ELSE reply[p]

RenderStep(p) == pc[p] = "check_missing_info" /\ pc'[p] = "rendered"

\* C14: the payload of the Confirmation Renderer holds the five fields
\* book_title, quantity, customer_name, phone, address, in this order, each
\* with the value the snapshot holds, and rendering leaves the snapshot as it
\* was.
C14_ConfirmPayloadFiveFieldsInOrder ==
    [][\A p \in Procs :
          RenderStep(p)
              => LET info == state[p].order_info
                     messages == state'[p].messages
                     content == messages[Len(messages)].content
                 IN /\ content.kind = "confirm"
                    /\ Len(content.fields) = Len(CanonicalOrder)
                    /\ \A i \in 1..Len(CanonicalOrder) :
                          content.fields[i]
                              = <<CanonicalOrder[i], Format(Item(info, CanonicalOrder[i]))>>
                    /\ state'[p].order_info = info]_vars

\* C14 witness: the renderer has run on a snapshot with a name, a phone and
\* an address, and its payload shows the three.
C14_Witness ==
    \E p \in Procs :
        /\ pc[p] = "rendered"
        /\ Item(state[p].order_info, "customer_name") = PyStr(<<"n">>)
        /\ state[p].messages[Len(state[p].messages)].content.fields[4]
             = <<"phone", <<"0">>>>
        /\ state[p].messages[Len(state[p].messages)].content.fields[5]
             = <<"address", <<"d">>>>

\* the run of p is at the node the Intent Router sent it to
Routed(p) == pc[p] \in Nodes /\ steps[p] = 0

\* C15: the Intent Router sends a turn to the entry node of the order flow
\* exactly when the intent is order_book, and to the QA flow when the intent
\* is search_book or unknown.
C15_IntentRouting ==
    \A p \in Procs :
        Routed(p)
            => /\ pc[p] = "order_assistant" <=> intent[p] = "order_book"
               /\ intent[p] \in {"search_book", "unknown"} => pc[p] = "qa_assistant"

\* C15 witness: a turn of intent unknown is at the first node of the QA flow.
C15_Witness ==
    \E p \in Procs : Routed(p) /\ intent[p] = "unknown" /\ pc[p] = "qa_assistant"

\* the step is a step of the run of p
StepOf(p) == pc'[p] # pc[p] \/ steps'[p] # steps[p]

\* the step is the node order_assistant of p's run with its edge
EntryStep(p) == pc[p] = "order_assistant" /\ steps'[p] = steps[p] + 1

\* C16: the entry node of the order flow changes no state; from it, search
\* leads to the Book Lookup node, collect and update lead to the Slot
\* Extractor node, and no other node follows it.
C16_EntryNodeRouting ==
    [][\A p \in Procs :
          EntryStep(p)
              => /\ state'[p] = state[p]
                 /\ memory'[tid[p]] = memory[tid[p]]
                 /\ action'[p] = "search" => pc'[p] = "search_book_info"
                 /\ action'[p] \in {"collect", "update"} => pc'[p] = "extract_info"
                 /\ pc'[p] \in {"search_book_info", "extract_info"}]_vars

\* C16 witness: the action update has led a run to the Slot Extractor.
C16_Witness ==
    \E p \in Procs :
        /\ pc[p] = "extract_info"
        /\ action[p] = "update"
        /\ log[p] = <<"detect_intent", "order_assistant", "order_assistant">>

\* C17: in the QA flow, the step after a model response that asks for a tool
\* is the execution of the tool, which appends its result to the turn log and
\* leads back to the model; a response that asks for no tool ends the flow,
\* and its text is the reply of the turn.
C17_ToolCallThenToolResult ==
    [][\A p \in Procs :
          /\ (pc[p] = "tools" /\ StepOf(p))
                => LET messages == state[p].messages
                       call == messages[Len(messages)].tool_calls[1]
                   IN /\ pc'[p] = "qa_assistant"
                      /\ state'[p].messages
                           = Append(messages, ToolMessage(search_book(call.title)))
          /\ (pc[p] = "qa_assistant" /\ pc'[p] = "END")
                => state'[p].messages[Len(state'[p].messages)].tool_calls = <<>>
          /\ (pc[p] = "END" /\ StepOf(p) /\ intent[p] # "order_book")
                => reply'[p] = state[p].messages[Len(state[p].messages)].content]_vars

\* C18: no two runs on one conversation id are in flight at the same time.
C18_OneRunPerConversation ==
    \A p, q \in Procs :
        (p # q /\ pc[p] # "idle" /\ pc[q] # "idle") => tid[p] # tid[q]

\* C19: a step of a run on one conversation id reads and writes the
\* checkpoint of that id only: it leaves the checkpoint of every other id,
\* and the state and the reply of every other run, as they were, and a turn
\* starts from the turn log of its own id.
C19_SessionsIsolated ==
    [][\A p \in Procs :
          StepOf(p)
              => /\ \A u \in UserIds \ {tid'[p]} : memory'[u] = memory[u]
                 /\ \A q \in Procs \ {p} :
                       /\ state'[q] = state[q]
                       /\ reply'[q] = reply[q]
                       /\ tid'[q] = tid[q]
                 /\ pc[p] = "idle"
                       => \E t \in UserInputs :
                             state'[p].messages
                                 = Append(memory[tid'[p]].messages, HumanMessage(t))]_vars

\* C19 witness: two runs on different conversation ids are in flight, each
\* past its first node.
C19_Witness ==
    \E p, q \in Procs :
        /\ tid[p] # tid[q]
        /\ pc[p] \in Nodes /\ steps[p] >= 1
        /\ pc[q] \in Nodes /\ steps[q] >= 1
        /\ memory[tid[p]] = state[p]
        /\ memory[tid[q]] = state[q]

\* C20: after the first turn of a server has failed, the turn log stored for
\* its conversation id is the one committed before the turn began: empty.
C20_FailedTurnLeavesNoTrace ==
    \A p \in Procs :
        (turns = 1 /\ pc[p] = "idle" /\ reply[p].kind = "exception")
            => memory[tid[p]].messages = NoCheckpoint.messages

\* the step is the end of p's run by a failure of the intent classifier, the
\* action classifier or the slot extractor
ClassifierFails(p) ==
    /\ pc[p] \in {"START", "order_assistant", "extract_info"}
    /\ steps[p] < RecursionLimit
    /\ pc'[p] = "idle"

\* C21: when the intent classifier, the action classifier or the slot
\* extractor fails, Agent.run gives its caller the generic apologetic reply.
C21_ClassifierFailureGivesApology ==
    [][\A p \in Procs :
          ClassifierFails(p) => reply'[p] = [kind |-> "text", text |-> "sorry"]]_vars

\* C23: in every state of a run and in every stored snapshot, quantity holds
\* an integer and is not missing, and no message of a turn log is the
\* quantity question.
C23_QuantityNeverMissing ==
    /\ \A p \in Procs :
          pc[p] # "idle"
              => /\ ~SlotMissing(state[p].order_info, "quantity")
                 /\ Item(state[p].order_info, "quantity").type = "int"
    /\ \A u \in UserIds :
          /\ memory[u].order_info # <<>>
                => /\ ~SlotMissing(memory[u].order_info, "quantity")
                   /\ Item(memory[u].order_info, "quantity").type = "int"
          /\ \A i \in 1..Len(memory[u].messages) :
                memory[u].messages[i].content
                    # [kind |-> "question", field |-> "quantity"]

\* C23 witness: a run whose slots come from the extractor has ended with a
\* follow-up question.
C23_Witness ==
    \E p \in Procs :
        /\ pc[p] = "END"
        /\ InList("extract_info", log[p])
        /\ state[p].messages[Len(state[p].messages)].content.kind = "question"

\* C24: no step of a chat turn changes the stock of a book or the orders
\* table.
C24_TurnLeavesInventoryAndOrders ==
    [][\A p \in Procs : StepOf(p) => books' = books /\ orders' = orders]_vars

\* C24 witness: a run has reached END through confirm_order while the orders
\* table holds an order.
C24_Witness ==
    \E p \in Procs :
        /\ pc[p] = "END"
        /\ state[p].messages[Len(state[p].messages)].content.kind = "confirm"
        /\ orders # <<>>

\* the value of a field, or Absent
ValueOf(order_info, field) == Get(order_info, field, Absent)

\* C29: the Book Lookup node leaves book_title, quantity, customer_name, phone
\* and address as they were; a search field is non-missing only in a run
\* whose Book Lookup node has run; the nodes of the QA flow and the entry
\* node of the order flow leave every slot as it was.
C29_SlotOwnership ==
    /\ [](\A p \in Procs :
            (\E i \in 1..Len(search_fields) :
                 ~SlotMissing(state[p].order_info, search_fields[i]))
                => InList("search_book_info", log[p]))
    /\ [][\A p \in Procs :
            /\ LookupStep(p)
                  => \A i \in 1..Len(CanonicalOrder) :
                        ValueOf(state'[p].order_info, CanonicalOrder[i])
                            = ValueOf(state[p].order_info, CanonicalOrder[i])
            /\ (pc[p] \in {"qa_assistant", "tools", "order_assistant"}
                 /\ steps'[p] = steps[p] + 1)
                  => state'[p].order_info = state[p].order_info]_vars

\* C29 witness: the Book Lookup node of a run has written an author.
C29_Witness ==
    \E p \in Procs :
        /\ InList("search_book_info", log[p])
        /\ ~SlotMissing(state[p].order_info, "author")
        /\ SlotMissing(state[p].order_info, "customer_name")

\* the last decision of the policy in p's run follows a Book Lookup
AfterLookup(p) ==
    /\ Len(log[p]) >= 2
    /\ SubSeq(log[p], Len(log[p]) - 1, Len(log[p]))
         = <<"search_book_info", "check_missing_info">>

\* C30: in every state of a turn book_id is missing, and every decision of
\* the Missing-Info Policy taken after a Book Lookup is search_book_info.
C30_BookIdAlwaysMissing ==
    \A p \in Procs :
        pc[p] # "idle"
            => /\ SlotMissing(state[p].order_info, "book_id")
               /\ AfterLookup(p) => route[p] = "search_book_info"

\* C30 witness: a Book Lookup has found a record and the policy has decided.
C30_Witness ==
    \E p \in Procs :
        /\ AfterLookup(p)
        /\ ~SlotMissing(state[p].order_info, "book_title_in_db")
        /\ Has(state[p].order_info, "book_id")

\* C22: a Book Lookup that follows a Book Lookup, with the same book_title
\* and the same inventory, and finds no record leaves the snapshot as the
\* first one left it.
C22_LookupIdempotentWhenUnresolved ==
    [][\A p \in Procs :
          (pc[p] = "looked" /\ pc'[p] = "looked_twice" /\ LookupResult(p) = <<>>)
              => state'[p].order_info = state[p].order_info]_vars

\* C22 witness: two Book Lookups in a row have found no record.
C22_Witness ==
    \E p \in Procs :
        /\ pc[p] = "looked_twice"
        /\ LookupResult(p) = <<>>
        /\ Has(state[p].order_info, "book_id")
        /\ SlotMissing(state[p].order_info, "author")

\* the keys a Book Lookup writes
LookupKeys ==
    <<"book_id", "author", "genre", "category", "availability", "book_title_in_db">>

\* C28: after the Slot Extractor node the snapshot holds exactly the keys
\* book_title, quantity, customer_name, phone, address, with values of the
\* extractor, and none of book_id, author, genre, category, availability,
\* book_title_in_db.
C28_ExtractorReplacesSnapshot ==
    [][\A p \in Procs :
          (pc[p] # "extracted" /\ pc'[p] = "extracted")
              => LET after == state'[p].order_info
                 IN /\ Keys(after) = CanonicalOrder
                    /\ Item(after, "book_title") \in ExtractedTitles
                    /\ Item(after, "quantity") \in ExtractedQuantities
                    /\ Item(after, "customer_name") \in ExtractedNames
                    /\ Item(after, "phone") \in ExtractedPhones
                    /\ Item(after, "address") \in ExtractedAddresses
                    /\ \A i \in 1..Len(LookupKeys) : ~Has(after, LookupKeys[i])]_vars

\* C28 witness: the Slot Extractor has run after a Book Lookup.
C28_Witness ==
    \E p \in Procs :
        /\ pc[p] = "extracted"
        /\ log[p] = <<"search_book_info", "extract_info">>
        /\ Keys(state[p].order_info) = CanonicalOrder

\* no other handler has called the order service
Alone(p) == \A q \in Procs \ {p} : svc[q].pc = "idle"

\* a string that is empty or holds whitespace only
Blank(s) == \A i \in 1..Len(s) : s[i] = " "

\* the arguments the contract of create_order rejects, given the books table
Rejected(a) ==
    \/ Blank(a.customer_name) \/ Blank(a.phone) \/ Blank(a.address)
    \/ ~(a.quantity > 0)
    \/ a.book_id \notin BookIds
    \/ books[a.book_id].stock < a.quantity

\* the arguments the contract of create_order accepts, given the books table
Accepted(a) ==
    /\ ~Blank(a.customer_name) /\ ~Blank(a.phone) /\ ~Blank(a.address)
    /\ a.book_id \in BookIds
    /\ 0 < a.quantity /\ a.quantity <= books[a.book_id].stock

\* this step is a step of p's call of the service create_order
ServiceStep(p) == svc'[p].pc # svc[p].pc /\ svc'[p].entry = "service"

\* this step ends p's call
Completes(p) == svc[p].pc # "done" /\ svc'[p].pc = "done"

\* C25: a call of create_order whose customer_name, phone or address is
\* empty or whitespace-only, whose quantity is not greater than 0, whose
\* book_id names no book, or whose quantity exceeds the book's stock leaves
\* the stock of every book and the orders as they were in each of its steps,
\* never comes to write an order, and ends with an error result.
C25_RejectedCallChangesNothing ==
    [][\A p \in Procs :
          (Alone(p) /\ ServiceStep(p) /\ Rejected(svc'[p].args))
              => /\ books' = books
                 /\ orders' = orders
                 /\ svc'[p].pc # "repo_write"
                 /\ Completes(p) => svc'[p].result.status = "error"]_vars

\* C25 witness: a call that ran alone was rejected for its quantity being
\* over the stock, and no order exists.
C25_Witness ==
    \E p \in Procs :
        /\ Alone(p)
        /\ svc[p].pc = "done"
        /\ svc[p].entry = "service"
        /\ svc[p].result.status = "error"
        /\ svc[p].result.message = "stock"
        /\ svc[p].args.quantity > books[svc[p].args.book_id].stock
        /\ orders = <<>>

\* the sum of the quantities of the orders of a book
RECURSIVE Ordered(_, _)
Ordered(rows, book_id) ==
    IF rows = <<>> THEN 0
    ELSE (IF Head(rows).book_id = book_id THEN Head(rows).quantity ELSE 0)
         + Ordered(Tail(rows), book_id)

\* C26: under every interleaving of the calls, the quantities of the orders
\* created for a book sum to at most the stock the book had before the
\* calls, and no stock is negative.
C26_OrdersWithinStock ==
    \A b \in BookIds :
        /\ Ordered(orders, b) <= MaxStock
        /\ books[b].stock >= 0

\* C27: a call of create_order with a non-blank customer_name, phone and
\* address, the id of a book and 0 < quantity <= stock ends with exactly one
\* more order, of status pending, the stock of the book less by quantity,
\* and a success result that carries the id and the date of the new order.
C27_AcceptedCallCreatesOrder ==
    [][\A p \in Procs :
          (Alone(p) /\ ServiceStep(p) /\ Completes(p) /\ Accepted(svc'[p].args))
              => LET a == svc'[p].args
                 IN /\ orders' = Append(orders, [book_id |-> a.book_id,
                                                 quantity |-> a.quantity,
                                                 status |-> "pending"])
                    /\ books' = [books EXCEPT ![a.book_id].stock = @ - a.quantity]
                    /\ svc'[p].result.status = "success"
                    /\ svc'[p].result.order_id = Len(orders')
                    /\ svc'[p].result.order_date # "None"]_vars

\* the step is the node extract_info of p's run
ExtractStep(p) == pc[p] = "extract_info" /\ steps'[p] = steps[p] + 1

\* the Book Lookup has run, or is about to run, in p's turn
LookupInTurn(p) ==
    pc[p] = "search_book_info" \/ InList("search_book_info", log[p])

\* C31: the Missing-Info Policy evaluated right after the Slot Extractor
\* never returns search_book_info, so the run never goes from the Slot
\* Extractor back to the entry node of the order flow; and the Book Lookup
\* runs in a turn only when the action classifier returned search.
C31_NoLookupAfterExtractor ==
    /\ [](\A p \in Procs : LookupInTurn(p) => action[p] = "search")
    /\ [][\A p \in Procs :
            ExtractStep(p)
                => /\ route'[p] \in {"follow_up_question", "confirm_order"}
                   /\ pc'[p] # "order_assistant"
                   /\ \A i \in 1..Len(search_fields) :
                         ~Has(state'[p].order_info, search_fields[i])]_vars

\* C31 witness: the Slot Extractor has run in a turn whose action was not
\* search, and the policy has sent the run to the Follow-up Question
\* Generator.
C31_Witness ==
    \E p \in Procs :
        /\ action[p] = "update"
        /\ InList("extract_info", log[p])
        /\ route[p] = "follow_up_question"
        /\ pc[p] = "follow_up_question"

\* the step is the node follow_up_question of p's run
FollowUpStep(p) ==
    pc[p] = "follow_up_question" /\ steps[p] < RecursionLimit /\ pc'[p] # pc[p]

\* what the node gave in this step: the content of its message, or the
\* exception that left the run
FollowUpOutcome(p) ==
    IF pc'[p] = "END"
    THEN state'[p].messages[Len(state'[p].messages)].content
    ELSE reply'[p]

\* the keys of the snapshot whose field is missing, in the order of its keys
MissingKeys(order_info) ==
    SelectSeq(Keys(order_info), LAMBDA k : SlotMissing(order_info, k))

\* C32: whenever the Follow-up Question Generator runs in a turn and does
\* not emit the disambiguation question, the list of the missing fields of
\* the snapshot is not empty, its first element is one of book_title,
\* quantity, customer_name, phone, address, and the question of that field
\* is emitted.
C32_FollowUpAlwaysFindsQuestion ==
    [][\A p \in Procs :
          (FollowUpStep(p) /\ FollowUpOutcome(p).kind # "disambiguation")
              => LET missing == MissingKeys(state[p].order_info)
                 IN /\ missing # <<>>
                    /\ InList(missing[1], CanonicalOrder)
                    /\ FollowUpOutcome(p) = [kind |-> "question",
                                             field |-> missing[1]]]_vars

\* C32 witness: the Follow-up Question Generator has run on a snapshot
\* whose first missing field is the phone and has asked for it.
C32_Witness ==
    \E p \in Procs :
        /\ pc[p] = "END"
        /\ log[p] # <<>>
        /\ log[p][Len(log[p])] = "follow_up_question"
        /\ MissingKeys(state[p].order_info) # <<>>
        /\ MissingKeys(state[p].order_info)[1] = "phone"
        /\ state[p].messages[Len(state[p].messages)].content
               = [kind |-> "question", field |-> "phone"]

\* book_title is missing: the key is absent, or its value is None or empty
TitleMissing(order_info) ==
    ValueOf(order_info, "book_title") \in {Absent, PyNone, PyStr(<<>>)}

\* C33: a Book Lookup that runs while book_title is missing takes the
\* not-found branch: it sets book_id, author, genre and category to None and
\* copies no author, category, availability or title of an inventory record,
\* so availability and book_title_in_db stay as they were.
C33_LookupWithoutTitleFindsNothing ==
    [][\A p \in Procs :
          (LookupStep(p) /\ TitleMissing(state[p].order_info))
              => LET before == state[p].order_info
                     after == state'[p].order_info
                 IN /\ \A f \in {"book_id", "author", "genre", "category"} :
                          ValueOf(after, f) = PyNone
                    /\ \A f \in {"availability", "book_title_in_db"} :
                          ValueOf(after, f) = ValueOf(before, f)]_vars

\* the sum of the quantities of the orders of a book that are not cancelled
RECURSIVE OrderedLive(_, _)
OrderedLive(rows, book_id) ==
    IF rows = <<>> THEN 0
    ELSE (IF Head(rows).book_id = book_id /\ Head(rows).status # "cancelled"
          THEN Head(rows).quantity ELSE 0)
         + OrderedLive(Tail(rows), book_id)

\* C34: after every sequence of OrderRepository.create_order and
\* update_order_status calls, the stock of each book plus the quantities of
\* its orders that are not cancelled equals the stock the book began with.
C34_StockConserved ==
    \A b \in BookIds :
        books[b].stock + OrderedLive(orders, b) = MaxStock

====
